---- MODULE Spec2Model ----
(***************************************************************************)
(* Model of src/app/src/lambda_handler.py: the Lambda connector between    *)
(* IoT Core, IoT TwinMaker, a DynamoDB table and an S3 bucket.             *)
(*                                                                         *)
(* One action is one whole invocation of lambda_handler.  The DynamoDB     *)
(* table and the S3 bucket are the persistent state; the request, the      *)
(* response, the branch taken and the log of the external calls attempted  *)
(* by the last invocation are recorded so that properties of an            *)
(* invocation can be stated as state predicates.                           *)
(*                                                                         *)
(* Strings the code only copies (entity ids, property names) are TLA+      *)
(* strings.  Strings the code or the store looks into (timestamps, MQTT    *)
(* topics) are sequences of one-character strings.                         *)
(***************************************************************************)
EXTENDS Integers, Sequences, FiniteSets, TLC

VARIABLES
    dynamo,      \* the DynamoDB table: a set of items (SensorID, Timestamp, Valor)
    s3,          \* the S3 bucket: a set of objects (Key, Body)
    event,       \* the request of the last invocation
    branch,      \* the branch of lambda_handler the last invocation took
    response,    \* what the last invocation returned
    calls        \* the external calls the last invocation attempted, in order

vars == <<dynamo, s3, event, branch, response, calls>>

(***************************************************************************)
(* Bounds of the model.                                                    *)
(***************************************************************************)
MaxBatch == 2
MaxRows == 102
MaxRefs == 3

(***************************************************************************)
(* Generic helpers on sequences.                                           *)
(***************************************************************************)
SeqsUpTo(S, n) == UNION {[1..k -> S] : k \in 0..n}

Min(a, b) == IF a <= b THEN a ELSE b

None == "None"

(***************************************************************************)
(* Characters and strings-as-sequences.  Code(c) is the code point of the  *)
(* characters that occur in the timestamps of the model; DynamoDB orders   *)
(* string sort keys by their UTF-8 bytes.                                  *)
(***************************************************************************)
Digits == <<"0", "1", "2", "3", "4", "5", "6", "7", "8", "9">>

Code(c) ==
    CASE c \in {"0", "1", "2", "3", "4", "5", "6", "7", "8", "9"} ->
            47 + (CHOOSE i \in 1..10 : Digits[i] = c)
      [] c = "+" -> 43
      [] c = "-" -> 45
      [] c = "." -> 46
      [] c = ":" -> 58
      [] c = "T" -> 84
      [] c = "Z" -> 90

DigitValue(c) == Code(c) - 48

\* The number written by the decimal digits s[from..to].
RECURSIVE Num(_, _, _)
Num(s, from, to) ==
    IF to < from THEN 0
    ELSE 10 * Num(s, from, to - 1) + DigitValue(s[to])

\* Two decimal digits, zero padded.
D2(n) == <<Digits[(n \div 10) + 1], Digits[(n % 10) + 1]>>

\* Byte-wise string order, as DynamoDB applies it to a string sort key.
RECURSIVE LexLessFrom(_, _, _)
LexLessFrom(s, t, i) ==
    IF i > Len(s) THEN i <= Len(t)
    ELSE IF i > Len(t) THEN FALSE
    ELSE IF s[i] = t[i] THEN LexLessFrom(s, t, i + 1)
    ELSE Code(s[i]) < Code(t[i])

LexLess(s, t) == LexLessFrom(s, t, 1)

(***************************************************************************)
(* Timestamps.  write_to_s3 parses the ISO-8601 string it is given:        *)
(*   ts_str  = timestamp_iso.replace('Z', '+00:00')                        *)
(*   now_utc = datetime.fromisoformat(ts_str)                              *)
(* and uses now_utc.year/.month/.day and int(now_utc.timestamp()).         *)
(***************************************************************************)
UtcOffset == <<"+", "0", "0", ":", "0", "0">>

\* timestamp_iso.replace('Z', '+00:00'): every 'Z' is replaced.
RECURSIVE ReplaceZ(_)
ReplaceZ(s) ==
    IF \A i \in 1..Len(s) : s[i] # "Z" THEN s
    ELSE LET i == CHOOSE k \in 1..Len(s) :
                      s[k] = "Z" /\ \A j \in 1..(k - 1) : s[j] # "Z"
         IN  SubSeq(s, 1, i - 1) \o UtcOffset \o ReplaceZ(SubSeq(s, i + 1, Len(s)))

\* Whether datetime.fromisoformat accepts s.  The timestamps of the model
\* have the form YYYY-MM-DDTHH:MM:SS[.ffffff]+HH:MM; the other strings of the
\* model are not timestamps at all and raise ValueError.
IsIsoFormat(s) ==
    /\ Len(s) \in {25, 32}
    /\ s[5] = "-" /\ s[8] = "-" /\ s[11] = "T" /\ s[14] = ":" /\ s[17] = ":"
    /\ Len(s) = 32 => s[20] = "."
    /\ s[Len(s) - 5] \in {"+", "-"}
    /\ s[Len(s) - 2] = ":"

\* datetime.fromisoformat on YYYY-MM-DDTHH:MM:SS[.ffffff]+HH:MM
FromIsoFormat(s) ==
    LET hasFrac == s[20] = "."
        z == IF hasFrac THEN 27 ELSE 20
        sign == IF s[z] = "-" THEN -1 ELSE 1
    IN  [year |-> Num(s, 1, 4), month |-> Num(s, 6, 7), day |-> Num(s, 9, 10),
         hour |-> Num(s, 12, 13), minute |-> Num(s, 15, 16),
         second |-> Num(s, 18, 19),
         microsecond |-> IF hasFrac THEN Num(s, 21, 26) ELSE 0,
         utcoffset |-> sign * (Num(s, z + 1, z + 2) * 3600 + Num(s, z + 4, z + 5) * 60)]

\* Days from 1970-01-01 to the civil date y-m-d (proleptic Gregorian).
DaysFromCivil(y, m, d) ==
    LET yy == IF m <= 2 THEN y - 1 ELSE y
        era == yy \div 400
        yoe == yy - era * 400
        mp == IF m > 2 THEN m - 3 ELSE m + 9
        doy == ((153 * mp + 2) \div 5) + d - 1
        doe == yoe * 365 + (yoe \div 4) - (yoe \div 100) + doy
    IN  era * 146097 + doe - 719468

\* int(dt.timestamp()) of an aware datetime: whole seconds since the epoch.
EpochSeconds(dt) ==
    DaysFromCivil(dt.year, dt.month, dt.day) * 86400
        + dt.hour * 3600 + dt.minute * 60 + dt.second - dt.utcoffset

\* Chronological order of the instants two timestamp strings denote.
Earlier(ts1, ts2) ==
    LET a == FromIsoFormat(ReplaceZ(ts1))
        b == FromIsoFormat(ReplaceZ(ts2))
    IN  \/ EpochSeconds(a) < EpochSeconds(b)
        \/ EpochSeconds(a) = EpochSeconds(b) /\ a.microsecond < b.microsecond

\* datetime.isoformat() of an aware UTC datetime: the microseconds are written
\* only when they are not zero.
IsoFormat(dt) ==
    D2(dt.year \div 100) \o D2(dt.year % 100) \o <<"-">> \o D2(dt.month) \o <<"-">> \o D2(dt.day)
        \o <<"T">> \o D2(dt.hour) \o <<":">> \o D2(dt.minute) \o <<":">> \o D2(dt.second)
        \o (IF dt.microsecond = 0 THEN <<>>
            ELSE <<".">> \o D2(dt.microsecond \div 10000)
                     \o D2((dt.microsecond \div 100) % 100) \o D2(dt.microsecond % 100))
        \o UtcOffset

(***************************************************************************)
(* Configuration (environment variables) and literals of the code.         *)
(***************************************************************************)
WORKSPACE_ID == "workspace"
TWINMAKER_ENTITY_ID == "festoEntity"
TWINMAKER_COMPONENT_NAME == "festoComponent"
QueryLimit == 100

Has(rec, field) == field \in DOMAIN rec

(***************************************************************************)
(* The DynamoDB table.  Primary key (SensorID, Timestamp): put_item        *)
(* replaces the item that has the same key.                                *)
(***************************************************************************)
SensorID(entity_id, property_name) == <<entity_id, ":", property_name>>

PutItem(table, item) ==
    {r \in table : ~(r.SensorID = item.SensorID /\ r.Timestamp = item.Timestamp)}
        \cup {item}

\* The items of a set of rows with one partition key, greatest sort key first.
RECURSIVE Descending(_)
Descending(rows) ==
    IF rows = {} THEN <<>>
    ELSE LET top == CHOOSE r \in rows :
                        \A o \in rows \ {r} : LexLess(o.Timestamp, r.Timestamp)
         IN  <<top>> \o Descending(rows \ {top})

\* Mutant of TableQuery: the Limit is ignored.
TableQueryUnlimited(table, sensor_id, limit) ==
    Descending({r \in table : r.SensorID = sensor_id})

\* table.query(KeyConditionExpression=Key('SensorID').eq(sensor_id),
\*             ScanIndexForward=False, Limit=limit)['Items']
TableQuery(table, sensor_id, limit) ==
    LET items == Descending({r \in table : r.SensorID = sensor_id})
    IN  SubSeq(items, 1, Min(limit, Len(items)))

Reversed(s) == [i \in 1..Len(s) |-> s[Len(s) + 1 - i]]

(***************************************************************************)
(* write_to_dynamo and write_to_s3.  st is the state of one invocation:    *)
(* the table, the bucket, the external calls attempted so far and the      *)
(* exception raised (None while none is).  failAt is the number of the     *)
(* external call of this invocation that fails (0: none does).             *)
(***************************************************************************)
Attempt(st, call, failAt) ==
    [call EXCEPT !.ok = (Len(st.calls) + 1 # failAt)]

\* Mutant of WriteToDynamo: the timestamp is stored in the normalised form
\* that write_to_s3 parses, not as it was given.
WriteToDynamoNormalising(st, entity_id, property_name, timestamp_iso, value, failAt) ==
    LET item_to_save == [SensorID |-> SensorID(entity_id, property_name),
                         Timestamp |-> ReplaceZ(timestamp_iso), Valor |-> value]
        call == Attempt(st, [api |-> "put_item", Item |-> item_to_save, ok |-> TRUE],
                        failAt)
    IN  IF call.ok
        THEN [st EXCEPT !.dynamo = PutItem(st.dynamo, item_to_save),
                        !.calls = Append(st.calls, call)]
        ELSE [st EXCEPT !.calls = Append(st.calls, call),
                        !.raised = "ClientError: PutItem"]

WriteToDynamo(st, entity_id, property_name, timestamp_iso, value, failAt) ==
    LET item_to_save == [SensorID |-> SensorID(entity_id, property_name),
                         Timestamp |-> timestamp_iso, Valor |-> value]
        call == Attempt(st, [api |-> "put_item", Item |-> item_to_save, ok |-> TRUE],
                        failAt)
    IN  IF call.ok
        THEN [st EXCEPT !.dynamo = PutItem(st.dynamo, item_to_save),
                        !.calls = Append(st.calls, call)]
        ELSE [st EXCEPT !.calls = Append(st.calls, call),
                        !.raised = "ClientError: PutItem"]

\* put_object replaces the object that has the same key.
PutObject(bucket, key, body) ==
    {o \in bucket : o.Key # key} \cup {[Key |-> key, Body |-> body]}

S3Key(now_utc, property_name) ==
    <<"dados-atuadores/", now_utc.year, "/", now_utc.month, "/", now_utc.day, "/",
      property_name, "-", EpochSeconds(now_utc), ".json">>

WriteToS3(st, entity_id, property_name, timestamp_iso, value, failAt) ==
    LET ts_str == ReplaceZ(timestamp_iso)
        now_utc == FromIsoFormat(ts_str)
        s3_key == S3Key(now_utc, property_name)
        body == [sensorId |-> SensorID(entity_id, property_name),
                 timestamp |-> timestamp_iso, value |-> value]
        call == Attempt(st, [api |-> "put_object", Key |-> s3_key, Body |-> body,
                             ok |-> TRUE], failAt)
    IN  IF ~IsIsoFormat(ts_str)
        THEN [st EXCEPT !.raised = "ValueError: Invalid isoformat string"]
        ELSE IF call.ok
        THEN [st EXCEPT !.s3 = PutObject(st.s3, s3_key, body),
                        !.calls = Append(st.calls, call)]
        ELSE [st EXCEPT !.calls = Append(st.calls, call),
                        !.raised = "ClientError: PutObject"]

(***************************************************************************)
(* CAMINHO 1: the IoT Core message is forwarded to TwinMaker.              *)
(***************************************************************************)
\* bool(value) of a JSON value (written as its JSON text).
Falsy == {"false", "0", "null", "\"\""}

Bool(value) == value \notin Falsy

\* Mutant of LastSegment: topic.split('/')[0], what precedes the first '/'.
RECURSIVE FirstSegment(_)
FirstSegment(topic) ==
    IF topic = <<>> THEN <<>>
    ELSE IF topic[1] = "/" THEN <<>>
    ELSE <<topic[1]>> \o FirstSegment(SubSeq(topic, 2, Len(topic)))

\* topic.split('/')[-1]: what follows the last '/' of the topic.
RECURSIVE LastSegment(_)
LastSegment(topic) ==
    IF topic = <<>> THEN <<>>
    ELSE IF topic[Len(topic)] = "/" THEN <<>>
    ELSE Append(LastSegment(SubSeq(topic, 1, Len(topic) - 1)), topic[Len(topic)])

\* Mutant of IngestFlow: the event is saved in the table instead of being
\* handed to TwinMaker.
IngestFlowPersisting(ev, st, failAt, now) ==
    IF ~Has(ev.payload, "value")
    THEN [st EXCEPT !.raised = "KeyError: 'value'"]
    ELSE WriteToDynamo(st, TWINMAKER_ENTITY_ID, LastSegment(ev.topic), IsoFormat(now),
                       Bool(ev.payload.value), failAt)

IngestFlow(ev, st, failAt, now) ==
    IF ~Has(ev.payload, "value")
    THEN [st EXCEPT !.raised = "KeyError: 'value'"]
    ELSE
        LET entity_id == TWINMAKER_ENTITY_ID
            component_name == TWINMAKER_COMPONENT_NAME
            value == ev.payload.value
            topic == ev.topic
            property_name == LastSegment(topic)
            timestamp_iso == IsoFormat(now)
            valor_booleano == Bool(value)
            call == Attempt(st,
                [api |-> "batch_put_property_values",
                 workspaceId |-> WORKSPACE_ID,
                 entries |-> <<[entityPropertyReference |->
                                    [entityId |-> entity_id,
                                     componentName |-> component_name,
                                     propertyName |-> property_name],
                                propertyValues |->
                                    <<[value |-> [booleanValue |-> valor_booleano],
                                       time |-> timestamp_iso]>>]>>,
                 ok |-> TRUE], failAt)
        IN  IF call.ok
            THEN [st EXCEPT !.calls = Append(st.calls, call)]
            ELSE [st EXCEPT !.calls = Append(st.calls, call),
                            !.raised = "ClientError: BatchPutPropertyValues"]

\* Mutant of IngestResponse: the failure of the call is not reported.
IngestResponseAlwaysOk(st) ==
    [statusCode |-> 200, body |-> <<"Chamada ao TwinMaker enviada com sucesso.">>]

IngestResponse(st) ==
    IF st.raised = None
    THEN [statusCode |-> 200, body |-> <<"Chamada ao TwinMaker enviada com sucesso.">>]
    ELSE [statusCode |-> 500, body |-> <<"Erro ao chamar o TwinMaker: ", st.raised>>]

(***************************************************************************)
(* CAMINHO 2: TwinMaker's dataWriter call; the entries are saved.          *)
(***************************************************************************)
\* Mutant of PersistEntry: best effort, the archive write is attempted even
\* when the keyed-store write failed.
PersistEntryBestEffort(st, entry, failAt) ==
    IF entry.propertyValues = <<>>
    THEN [st EXCEPT !.raised = "IndexError: list index out of range"]
    ELSE
        LET entity_id == entry.entityPropertyReference.entityId
            property_name == entry.entityPropertyReference.propertyName
            value_entry == entry.propertyValues[1]
            valor_booleano == value_entry.value.booleanValue
            timestamp_iso == value_entry.time
            afterDynamo == WriteToDynamo(st, entity_id, property_name, timestamp_iso,
                                         valor_booleano, failAt)
        IN  WriteToS3(afterDynamo, entity_id, property_name, timestamp_iso,
                      valor_booleano, failAt)

\* Mutant of PersistEntry: the archive is written before the table.
PersistEntryArchiveFirst(st, entry, failAt) ==
    IF entry.propertyValues = <<>>
    THEN [st EXCEPT !.raised = "IndexError: list index out of range"]
    ELSE
        LET entity_id == entry.entityPropertyReference.entityId
            property_name == entry.entityPropertyReference.propertyName
            value_entry == entry.propertyValues[1]
            valor_booleano == value_entry.value.booleanValue
            timestamp_iso == value_entry.time
            afterS3 == WriteToS3(st, entity_id, property_name, timestamp_iso,
                                 valor_booleano, failAt)
        IN  IF afterS3.raised # None THEN afterS3
            ELSE WriteToDynamo(afterS3, entity_id, property_name, timestamp_iso,
                               valor_booleano, failAt)

\* The body of the loop "for entry in event['entries']" for one entry.
PersistEntry(st, entry, failAt) ==
    IF entry.propertyValues = <<>>
    THEN [st EXCEPT !.raised = "IndexError: list index out of range"]
    ELSE
        LET entity_id == entry.entityPropertyReference.entityId
            property_name == entry.entityPropertyReference.propertyName
            value_entry == entry.propertyValues[1]
            valor_booleano == value_entry.value.booleanValue
            timestamp_iso == value_entry.time
            afterDynamo == WriteToDynamo(st, entity_id, property_name, timestamp_iso,
                                         valor_booleano, failAt)
        IN  IF afterDynamo.raised # None THEN afterDynamo
            ELSE WriteToS3(afterDynamo, entity_id, property_name, timestamp_iso,
                           valor_booleano, failAt)

\* The loop: the first exception leaves it.
RECURSIVE PersistLoop(_, _, _, _)
PersistLoop(st, entries, i, failAt) ==
    IF i > Len(entries) \/ st.raised # None THEN st
    ELSE PersistLoop(PersistEntry(st, entries[i], failAt), entries, i + 1, failAt)

\* Mutant of DataWriterFlow: a failure undoes the writes of the invocation.
DataWriterFlowRollingBack(ev, st, failAt) ==
    LET after == PersistLoop(st, ev.entries, 1, failAt)
    IN  IF after.raised = None THEN after
        ELSE [after EXCEPT !.dynamo = st.dynamo, !.s3 = st.s3]

DataWriterFlow(ev, st, failAt) == PersistLoop(st, ev.entries, 1, failAt)

ErrorEntry(e) ==
    [error |-> [code |-> "INTERNAL_FAILURE",
                message |-> <<"Ocorreu um erro no conector Lambda: ", e>>],
     entryId |-> "error"]

\* Mutant of DataWriterResponse: the failure is reported in the shape of the
\* IoT Core branch.
DataWriterResponseAsStatus(st) ==
    IF st.raised = None
    THEN [errorEntries |-> <<>>]
    ELSE [statusCode |-> 500, body |-> <<"Erro no conector Lambda: ", st.raised>>]

DataWriterResponse(st) ==
    IF st.raised = None
    THEN [errorEntries |-> <<>>]
    ELSE [errorEntries |-> <<ErrorEntry(st.raised)>>]

(***************************************************************************)
(* CAMINHO 3: TwinMaker's dataReader call; the history is read.            *)
(***************************************************************************)
\* The two request formats, unified.  The Grafana format reads
\* event['entityId'] and event['componentName'].
ReaderMissingKey(ev) ==
    IF Has(ev, "propertyReferences") THEN None
    ELSE IF ~Has(ev, "entityId") THEN "KeyError: 'entityId'"
    ELSE IF ~Has(ev, "componentName") THEN "KeyError: 'componentName'"
    ELSE None

PropertyReferencesToQuery(ev) ==
    IF Has(ev, "propertyReferences") THEN ev.propertyReferences
    ELSE [i \in 1..Len(ev.selectedProperties) |->
             [entityId |-> ev.entityId,
              componentName |-> ev.componentName,
              propertyName |-> ev.selectedProperties[i]]]

\* bool(item['Valor']) of a stored boolean.
BoolOfValor(v) == (v = TRUE)

ValuesForProperty(items) ==
    LET oldestFirst == Reversed(items)
    IN  [i \in 1..Len(oldestFirst) |->
            [time |-> oldestFirst[i].Timestamp,
             value |-> [booleanValue |-> BoolOfValor(oldestFirst[i].Valor)]]]

\* Mutant of QueryReference: a reference without records gets no element in
\* the response.
QueryReferenceSkippingEmpty(st, prop_ref, failAt) ==
    LET entity_id == prop_ref.entityId
        property_name == prop_ref.propertyName
        sensor_id == SensorID(entity_id, property_name)
        call == Attempt(st, [api |-> "query", SensorID |-> sensor_id,
                             Limit |-> QueryLimit, ok |-> TRUE], failAt)
        items == TableQuery(st.dynamo, sensor_id, QueryLimit)
    IN  IF call.ok
        THEN [st EXCEPT !.calls = Append(st.calls, call),
                        !.out = IF items = <<>> THEN st.out
                                ELSE Append(st.out,
                                        [entityPropertyReference |-> prop_ref,
                                         values |-> ValuesForProperty(items)])]
        ELSE [st EXCEPT !.calls = Append(st.calls, call),
                        !.raised = "ClientError: Query"]

\* The body of the loop "for prop_ref in property_references_to_query".
QueryReference(st, prop_ref, failAt) ==
    LET entity_id == prop_ref.entityId
        property_name == prop_ref.propertyName
        sensor_id == SensorID(entity_id, property_name)
        call == Attempt(st, [api |-> "query", SensorID |-> sensor_id,
                             Limit |-> QueryLimit, ok |-> TRUE], failAt)
    IN  IF call.ok
        THEN [st EXCEPT !.calls = Append(st.calls, call),
                        !.out = Append(st.out,
                            [entityPropertyReference |-> prop_ref,
                             values |-> ValuesForProperty(
                                 TableQuery(st.dynamo, sensor_id, QueryLimit))])]
        ELSE [st EXCEPT !.calls = Append(st.calls, call),
                        !.raised = "ClientError: Query"]

RECURSIVE QueryLoop(_, _, _, _)
QueryLoop(st, refs, i, failAt) ==
    IF i > Len(refs) \/ st.raised # None THEN st
    ELSE QueryLoop(QueryReference(st, refs[i], failAt), refs, i + 1, failAt)

DataReaderFlow(ev, st, failAt) ==
    IF ReaderMissingKey(ev) # None
    THEN [st EXCEPT !.raised = ReaderMissingKey(ev)]
    ELSE QueryLoop(st, PropertyReferencesToQuery(ev), 1, failAt)

\* Mutant of EmptyResponse: the nextToken field is left out.
EmptyResponseWithoutToken == [propertyValues |-> <<>>]

EmptyResponse == [propertyValues |-> <<>>, nextToken |-> None]

\* Mutant of DataReaderResponse: after a failure the results collected so far
\* are returned.
DataReaderResponsePartial(st) == [propertyValues |-> st.out, nextToken |-> None]

DataReaderResponse(st) ==
    IF st.raised = None
    THEN [propertyValues |-> st.out, nextToken |-> None]
    ELSE EmptyResponse

(***************************************************************************)
(* lambda_handler: the router and the whole invocation.                    *)
(***************************************************************************)
\* Mutant of Route: the read formats are tested before the entries field.
RouteReaderFirst(ev) ==
    IF Has(ev, "topic") /\ Has(ev, "payload") THEN "Ingest"
    ELSE IF Has(ev, "selectedProperties") \/ Has(ev, "propertyReferences") THEN "Query"
    ELSE IF Has(ev, "entries") THEN "Persist"
    ELSE "Unrecognized"

\* Mutant of Route: the entries field is tested before topic and payload.
RouteEntriesFirst(ev) ==
    IF Has(ev, "entries") THEN "Persist"
    ELSE IF Has(ev, "topic") /\ Has(ev, "payload") THEN "Ingest"
    ELSE IF Has(ev, "selectedProperties") \/ Has(ev, "propertyReferences") THEN "Query"
    ELSE "Unrecognized"

Route(ev) ==
    IF Has(ev, "topic") /\ Has(ev, "payload") THEN "Ingest"
    ELSE IF Has(ev, "entries") THEN "Persist"
    ELSE IF Has(ev, "selectedProperties") \/ Has(ev, "propertyReferences") THEN "Query"
    ELSE "Unrecognized"

\* The result of lambda_handler(ev): the stores after it, the external calls
\* it attempted and what it returned.
LambdaHandler(ev, failAt, now, table, bucket) ==
    LET st0 == [dynamo |-> table, s3 |-> bucket, calls |-> <<>>, raised |-> None,
                out |-> <<>>]
        kind == Route(ev)
    IN  CASE kind = "Ingest" ->
                LET st == IngestFlow(ev, st0, failAt, now)
                IN  [branch |-> kind, st |-> st, response |-> IngestResponse(st)]
          [] kind = "Persist" ->
                LET st == DataWriterFlow(ev, st0, failAt)
                IN  [branch |-> kind, st |-> st, response |-> DataWriterResponse(st)]
          [] kind = "Query" ->
                LET st == DataReaderFlow(ev, st0, failAt)
                IN  [branch |-> kind, st |-> st, response |-> DataReaderResponse(st)]
          [] OTHER ->
                [branch |-> kind, st |-> st0, response |-> EmptyResponse]

Invoke(ev, failAt, now) ==
    \E r \in {LambdaHandler(ev, failAt, now, dynamo, s3)} :
        /\ dynamo' = r.st.dynamo
        /\ s3' = r.st.s3
        /\ event' = ev
        /\ branch' = r.branch
        /\ response' = r.response
        /\ calls' = r.st.calls

Init ==
    /\ dynamo = {}
    /\ s3 = {}
    /\ event = None
    /\ branch = None
    /\ response = None
    /\ calls = <<>>

(***************************************************************************)
(* The inputs of the model.                                                *)
(***************************************************************************)
\* Clock readings of datetime.now(timezone.utc), and timestamps TwinMaker
\* hands to the dataWriter: 12:00:00Z, 12:00:00.500000+00:00, 12:00:01+00:00.
Noon(second, microsecond) ==
    [year |-> 2024, month |-> 1, day |-> 1, hour |-> 12, minute |-> 0,
     second |-> second, microsecond |-> microsecond, utcoffset |-> 0]

ClockReadings == {Noon(0, 0), Noon(0, 500000)}

\* The same instant as IsoFormat(dt), written with the 'Z' designator.
ZuluFormat(dt) ==
    LET iso == IsoFormat(dt)
    IN  SubSeq(iso, 1, Len(iso) - Len(UtcOffset)) \o <<"Z">>

TsZ == ZuluFormat(Noon(0, 0))
TsH == IsoFormat(Noon(0, 500000))
Ts1 == IsoFormat(Noon(1, 0))

TimedValue(t, b) == [value |-> [booleanValue |-> b], time |-> t]

Ref(e, p) == [entityId |-> e, propertyName |-> p]

Entry(e, p, timedValues) ==
    [entityPropertyReference |-> Ref(e, p), propertyValues |-> timedValues]

EntryWithId(e, p, timedValues, id) ==
    [entityPropertyReference |-> Ref(e, p), propertyValues |-> timedValues,
     entryId |-> id]

WriterRequest(entries) == [entries |-> entries]

\* The number of external calls an invocation can reach, hence the calls that
\* can be the failing one.
CallBudget(ev) ==
    CASE Route(ev) = "Ingest" -> 1
      [] Route(ev) = "Persist" -> 2 * Len(ev.entries)
      [] Route(ev) = "Query" ->
            IF ReaderMissingKey(ev) # None THEN 0
            ELSE Len(PropertyReferencesToQuery(ev))
      [] OTHER -> 0

\* One invocation of lambda_handler on the request ev, with every choice of
\* the external call that fails.
Handle(ev) ==
    \E failAt \in 0..CallBudget(ev) :
        \E now \in (IF Route(ev) = "Ingest" THEN ClockReadings ELSE {Noon(0, 0)}) :
            Invoke(ev, failAt, now)

\* The same with no external call failing.
HandleHealthy(ev) == Invoke(ev, 0, Noon(0, 0))

(***************************************************************************)
(* SpecPersist: dataWriter calls with every failure of a store call.       *)
(***************************************************************************)
PersistEntries ==
    { EntryWithId("e1", "p1", <<TimedValue(TsZ, TRUE)>>, "entry-1"),
      Entry("e2", "p1", <<TimedValue(TsH, FALSE), TimedValue(Ts1, TRUE)>>),
      Entry("e1", "p1", <<TimedValue(Ts1, FALSE)>>) }

PersistRequests == {WriterRequest(b) : b \in SeqsUpTo(PersistEntries, MaxBatch)}

PersistCall ==
    \E ev \in PersistRequests :
        /\ Route(ev) = "Persist"
        /\ Handle(ev)

NextPersist == PersistCall

SpecPersist == Init /\ [][NextPersist]_vars

(***************************************************************************)
(* SpecOrder: one sensor written at three instants, in any order, and      *)
(* dataReader calls with every failure of a query.  The writes succeed     *)
(* here; their failures are the subject of SpecPersist.                    *)
(***************************************************************************)
ReaderRequests ==
    {[propertyReferences |-> r] :
        r \in SeqsUpTo({Ref("e1", "p1"), Ref("e2", "p1")}, MaxRefs)}

OrderEntries ==
    { Entry("e1", "p1", <<TimedValue(TsZ, TRUE)>>),
      Entry("e1", "p1", <<TimedValue(TsH, TRUE)>>),
      Entry("e1", "p1", <<TimedValue(Ts1, FALSE)>>) }

OrderRequests == {WriterRequest(b) : b \in SeqsUpTo(OrderEntries, MaxBatch)}

OrderWrite ==
    \E ev \in OrderRequests :
        /\ Route(ev) = "Persist"
        /\ HandleHealthy(ev)

HistoryRead ==
    \E ev \in ReaderRequests :
        /\ Route(ev) = "Query"
        /\ Handle(ev)

NextOrder == OrderWrite \/ HistoryRead

SpecOrder == Init /\ [][NextOrder]_vars

(***************************************************************************)
(* SpecRoundTrip: writes of the same sensor and instant with both values,  *)
(* and of a second sensor, followed by dataReader calls.                   *)
(***************************************************************************)
RoundTripEntries ==
    { Entry("e1", "p1", <<TimedValue(TsZ, TRUE)>>),
      Entry("e1", "p1", <<TimedValue(TsZ, FALSE)>>),
      Entry("e2", "p1", <<TimedValue(TsH, TRUE)>>) }

RoundTripRequests == {WriterRequest(b) : b \in SeqsUpTo(RoundTripEntries, MaxBatch)}

RoundTripWrite ==
    \E ev \in RoundTripRequests :
        /\ Route(ev) = "Persist"
        /\ HandleHealthy(ev)

RoundTripRead ==
    \E ev \in ReaderRequests :
        /\ Route(ev) = "Query"
        /\ Handle(ev)

NextRoundTrip == RoundTripWrite \/ RoundTripRead

SpecRoundTrip == Init /\ [][NextRoundTrip]_vars

(***************************************************************************)
(* Spec: the router.  One request for every combination of the fields the  *)
(* router tests, with and without the fields the Grafana format reads.     *)
(***************************************************************************)
RoutedFields == {"topic", "payload", "entries", "selectedProperties",
                 "propertyReferences"}

GrafanaFields == {"entityId", "componentName"}

FieldValue(f) ==
    CASE f = "topic" -> <<"f", "/", "l", "/", "p", "1">>
      [] f = "payload" -> [value |-> "1"]
      [] f = "entries" ->
            <<EntryWithId("e1", "p1", <<TimedValue(TsZ, TRUE)>>, "entry-1")>>
      [] f = "selectedProperties" -> <<"p1", "p2">>
      [] f = "propertyReferences" -> <<Ref("e1", "p1"), Ref("e2", "p1")>>
      [] f = "entityId" -> "e1"
      [] f = "componentName" -> "c1"

Requests ==
    {[f \in fields \cup context |-> FieldValue(f)] :
        fields \in SUBSET RoutedFields, context \in {{}, GrafanaFields}}

IngestCall ==
    \E ev \in Requests :
        /\ Route(ev) = "Ingest"
        /\ Handle(ev)

WriterCall ==
    \E ev \in Requests :
        /\ Route(ev) = "Persist"
        /\ Handle(ev)

ReaderCall ==
    \E ev \in Requests :
        /\ Route(ev) = "Query"
        /\ Handle(ev)

UnrecognizedCall ==
    \E ev \in Requests :
        /\ Route(ev) = "Unrecognized"
        /\ Handle(ev)

Next == IngestCall \/ WriterCall \/ ReaderCall \/ UnrecognizedCall

Spec == Init /\ [][Next]_vars

(***************************************************************************)
(* SpecIngest: IoT Core messages.  Topics with several segments, with one, *)
(* with an empty last one and the empty topic; payloads with every kind of *)
(* JSON value and without the value key; messages that carry the value at  *)
(* the top level with no payload field; with and without fields that name  *)
(* an entity and a component.  The call to TwinMaker may fail.             *)
(***************************************************************************)
IngestTopics ==
    { <<"f", "/", "l", "/", "p", "1">>, <<"p", "1">>, <<"f", "/">>, <<>> }

\* JSON texts of the value: true, false, 1, 0, "on", "" and null.
IngestValues == {"true", "false", "1", "0", "\"on\"", "\"\"", "null"}

IngestPayloads == {[value |-> v] : v \in IngestValues} \cup {[state |-> "1"]}

WithContext(msg, context) ==
    [f \in DOMAIN msg \cup context |->
        IF f \in DOMAIN msg THEN msg[f] ELSE FieldValue(f)]

IngestMessages ==
    {WithContext([topic |-> t, payload |-> p], context) :
        t \in IngestTopics, p \in IngestPayloads, context \in {{}, GrafanaFields}}

FlatMessages ==
    {[topic |-> t, value |-> v] : t \in IngestTopics, v \in IngestValues}

IngestMessage ==
    \E ev \in IngestMessages :
        /\ Route(ev) = "Ingest"
        /\ Handle(ev)

FlatMessage ==
    \E ev \in FlatMessages :
        /\ Route(ev) = "Unrecognized"
        /\ Handle(ev)

NextIngest == IngestMessage \/ FlatMessage

SpecIngest == Init /\ [][NextIngest]_vars

(***************************************************************************)
(* SpecFaults: the requests of Spec and requests that make a branch raise: *)
(* a payload without the value key, an entry without a timed value, an     *)
(* entry whose time is not a timestamp, the Grafana format without its     *)
(* entityId, a message with the value outside a payload.  Every external   *)
(* call may fail.                                                          *)
(***************************************************************************)
\* A time of day without a date: fromisoformat raises ValueError.
NotATimestamp == <<"1", "2", ":", "0", "0", ":", "0", "0">>

MalformedRequests ==
    { [topic |-> FieldValue("topic"), payload |-> [state |-> "1"]],
      [topic |-> FieldValue("topic"), value |-> "1"],
      WriterRequest(<<Entry("e1", "p1", <<>>)>>),
      WriterRequest(<<Entry("e1", "p1", <<TimedValue(Ts1, TRUE)>>),
                      Entry("e1", "p1", <<TimedValue(NotATimestamp, TRUE)>>)>>),
      [selectedProperties |-> <<"p1">>, componentName |-> "c1"] }

Kinds == {"Ingest", "Persist", "Query", "Unrecognized"}

MalformedCall ==
    \E ev \in MalformedRequests :
        /\ Route(ev) \in Kinds
        /\ Handle(ev)

NextFaults == IngestCall \/ WriterCall \/ ReaderCall \/ UnrecognizedCall \/ MalformedCall

SpecFaults == Init /\ [][NextFaults]_vars

(***************************************************************************)
(* SpecLimit: one sensor that reports once a second, more often than the   *)
(* query limit allows to read back.  TwinMaker hands the events to the     *)
(* dataWriter two per call, the later one first, and the history is read   *)
(* after any number of calls.                                              *)
(***************************************************************************)
\* The timestamp of the n-th second after 12:00:00, as isoformat() writes it.
Stamp(n) ==
    IsoFormat([Noon(n % 60, 0) EXCEPT !.minute = n \div 60])

LimitEntry(n) == Entry("e1", "p1", <<TimedValue(Stamp(n), n % 3 = 0)>>)

\* The batch that follows the first n events.
LimitBatch(n) ==
    IF n + 1 < MaxRows THEN <<LimitEntry(n + 1), LimitEntry(n)>>
    ELSE <<LimitEntry(n)>>

LimitWrites ==
    {WriterRequest(LimitBatch(n)) :
        n \in {Cardinality(dynamo)} \cap (0..(MaxRows - 1))}

LimitReads == { [propertyReferences |-> <<Ref("e1", "p1")>>] }

LimitWrite ==
    \E ev \in LimitWrites :
        /\ Route(ev) = "Persist"
        /\ HandleHealthy(ev)

LimitRead ==
    \E ev \in LimitReads :
        /\ Route(ev) = "Query"
        /\ Handle(ev)

NextLimit == LimitWrite \/ LimitRead

SpecLimit == Init /\ [][NextLimit]_vars

(***************************************************************************)
(* What the last invocation did, read from its request and its call log.   *)
(***************************************************************************)
Failed(k) == k \in 1..Len(calls) /\ ~calls[k].ok

SomeCallFailed == \E k \in 1..Len(calls) : Failed(k)

\* A write-batch the dataWriter contract allows: every entry has a timed value.
ValidBatch(ev) == \A i \in 1..Len(ev.entries) : ev.entries[i].propertyValues # <<>>

\* In a valid batch the k-th store call belongs to entry (k + 1) \div 2: the
\* odd calls are the put_item, the even ones the put_object.
EntryOfCall(k) == (k + 1) \div 2

\* The canonical event of the j-th timed value of an entry.
CanonicalItem(entry, j) ==
    [SensorID |-> SensorID(entry.entityPropertyReference.entityId,
                           entry.entityPropertyReference.propertyName),
     Timestamp |-> entry.propertyValues[j].time,
     Valor |-> entry.propertyValues[j].value.booleanValue]

\* Entries of the batch with both store writes done.
WrittenEntries ==
    {i \in 1..Len(event.entries) :
        \E k \in 1..Len(calls) :
            /\ EntryOfCall(k) = i
            /\ calls[k].api = "put_object"
            /\ calls[k].ok
            /\ k > 1 /\ calls[k - 1].api = "put_item" /\ calls[k - 1].ok}

\* C1: for every valid write-batch and every pattern of store failures, the
\* number of errorEntries plus the number of entries written to the stores
\* equals the number of entries of the batch.
C1_NoEntryDroppedSilently ==
    (branch = "Persist" /\ ValidBatch(event)) =>
        Len(response.errorEntries) + Cardinality(WrittenEntries) = Len(event.entries)

\* C8: fail-fast Persist.  The failing store call is the last call of the
\* invocation (no archive write after a failed keyed-store write, no write for
\* a later entry), the calls made are the two writes of each entry in batch
\* order, and the response is one errorEntries element with code
\* INTERNAL_FAILURE whichever of the two writes failed.
C8_FailFastPersist ==
    (branch = "Persist" /\ ValidBatch(event)) =>
        /\ \A k \in 1..Len(calls) :
            /\ EntryOfCall(k) <= Len(event.entries)
            /\ calls[k].api = (IF k % 2 = 1 THEN "put_item" ELSE "put_object")
            /\ Failed(k) => k = Len(calls)
            /\ calls[k].api = "put_item" =>
                   calls[k].Item = CanonicalItem(event.entries[EntryOfCall(k)], 1)
            /\ calls[k].api = "put_object" =>
                   calls[k].Body.timestamp
                       = event.entries[EntryOfCall(k)].propertyValues[1].time
        /\ SomeCallFailed =>
            /\ Len(response.errorEntries) = 1
            /\ response.errorEntries[1].error.code = "INTERNAL_FAILURE"
        /\ ~SomeCallFailed =>
            /\ response.errorEntries = <<>>
            /\ Len(calls) = 2 * Len(event.entries)

\* C8 witness: a batch of two entries whose first keyed-store write failed.
C8_Witness ==
    /\ branch = "Persist"
    /\ Len(event.entries) = 2
    /\ Len(calls) = 1
    /\ Failed(1)
    /\ calls[1].api = "put_item"

\* C9: each errorEntries element carries the entryId of the entry that
\* failed when that entry has one; the fallback id only when it has none.
FailingEntry == event.entries[EntryOfCall(Len(calls))]

C9_ErrorEntryIdentifiesEntry ==
    (branch = "Persist" /\ ValidBatch(event) /\ SomeCallFailed) =>
        \A n \in 1..Len(response.errorEntries) :
            Has(FailingEntry, "entryId") =>
                response.errorEntries[n].entryId = FailingEntry.entryId

\* C10: with no store failure, every timed value of every entry (not only the
\* first) is written to the keyed store and to the archive; an entry with n
\* timed values makes n keyed-store writes.
RECURSIVE SumOfLens(_, _)
SumOfLens(entries, i) ==
    IF i > Len(entries) THEN 0
    ELSE Len(entries[i].propertyValues) + SumOfLens(entries, i + 1)

C10_EveryTimedValueWritten ==
    (branch = "Persist" /\ ValidBatch(event) /\ ~SomeCallFailed) =>
        /\ \A i \in 1..Len(event.entries) :
            \A j \in 1..Len(event.entries[i].propertyValues) :
                /\ \E k \in 1..Len(calls) :
                    /\ calls[k].api = "put_item"
                    /\ calls[k].Item = CanonicalItem(event.entries[i], j)
                /\ \E k \in 1..Len(calls) :
                    /\ calls[k].api = "put_object"
                    /\ calls[k].Body.sensorId = CanonicalItem(event.entries[i], j).SensorID
                    /\ calls[k].Body.timestamp = event.entries[i].propertyValues[j].time
        /\ Cardinality({k \in 1..Len(calls) : calls[k].api = "put_item"})
               = SumOfLens(event.entries, 1)

(***************************************************************************)
(* Claims about the dataReader.                                            *)
(***************************************************************************)
\* The references a read request asks for, in request order, as the response
\* echoes them.
RequestedRefs(ev) ==
    IF Has(ev, "propertyReferences") THEN ev.propertyReferences
    ELSE [i \in 1..Len(ev.selectedProperties) |->
             [entityId |-> ev.entityId, componentName |-> ev.componentName,
              propertyName |-> ev.selectedProperties[i]]]

RowsOf(table, ref) ==
    {r \in table : r.SensorID = <<ref.entityId, ":", ref.propertyName>>}

Pair(time, value) == [time |-> time, value |-> [booleanValue |-> value]]

\* C2 as stated: after a Persist invocation that wrote an event (e, p, t, v)
\* to the keyed store, the next Query invocation for (e, p) returns a values
\* list that contains (time = t, booleanValue = v), t being the string given
\* to Persist.
QueryReturns(ev, resp, item) ==
    \A n \in 1..Len(RequestedRefs(ev)) :
        RowsOf({item}, RequestedRefs(ev)[n]) # {} =>
            /\ n <= Len(resp.propertyValues)
            /\ resp.propertyValues[n].entityPropertyReference = RequestedRefs(ev)[n]
            /\ \E a \in 1..Len(resp.propertyValues[n].values) :
                   resp.propertyValues[n].values[a] = Pair(item.Timestamp, item.Valor)

\* Entry i of the valid batch of the last invocation went to the keyed store.
KeyedStoreWritten(i) ==
    /\ i \in 1..Len(event.entries)
    /\ 2 * i - 1 <= Len(calls)
    /\ calls[2 * i - 1].api = "put_item"
    /\ calls[2 * i - 1].ok

\* No later entry written by the invocation has the SensorKey and the time
\* string of entry i.
NotReplacedInBatch(i) ==
    \A j \in (i + 1)..Len(event.entries) :
        KeyedStoreWritten(j) =>
            ~(/\ CanonicalItem(event.entries[j], 1).SensorID
                     = CanonicalItem(event.entries[i], 1).SensorID
              /\ CanonicalItem(event.entries[j], 1).Timestamp
                     = CanonicalItem(event.entries[i], 1).Timestamp)

C2_Step ==
    (branch = "Persist" /\ ValidBatch(event) /\ branch' = "Query") =>
        \A i \in 1..Len(event.entries) :
            KeyedStoreWritten(i) =>
                QueryReturns(event', response', CanonicalItem(event.entries[i], 1))

C2_RoundTripAsStated == [][C2_Step]_vars

\* C2 as amended: the same, for a Query invocation in which no keyed-store
\* query fails, and for an event that no later entry of the same batch
\* replaced (a later write of the same SensorKey and time string).
C2_AmendedStep ==
    (/\ branch = "Persist"
     /\ ValidBatch(event)
     /\ branch' = "Query"
     /\ \A q \in 1..Len(calls') : calls'[q].ok) =>
        \A i \in 1..Len(event.entries) :
            (KeyedStoreWritten(i) /\ NotReplacedInBatch(i)) =>
                QueryReturns(event', response', CanonicalItem(event.entries[i], 1))

C2_RoundTrip == [][C2_AmendedStep]_vars

\* C2 witness: a Query without failure that returns the 'Z' timestamp of
\* sensor e1:p1 as it was written.
C2_Witness ==
    /\ branch = "Query"
    /\ ~SomeCallFailed
    /\ \E n \in 1..Len(response.propertyValues) :
        /\ response.propertyValues[n].entityPropertyReference = Ref("e1", "p1")
        /\ \E a \in 1..Len(response.propertyValues[n].values) :
               response.propertyValues[n].values[a].time = TsZ

\* C3: three events of one SensorKey at instants T1 < T2 < T3, written in any
\* order, are listed by a Query in the order [T1, T2, T3].
C3_OldestFirst ==
    (branch = "Query" /\ ~SomeCallFailed) =>
        \A n \in 1..Len(response.propertyValues) :
            LET values == response.propertyValues[n].values
                rows == RowsOf(dynamo, RequestedRefs(event)[n])
            IN  Cardinality(rows) >= 3 =>
                    /\ Len(values) = Cardinality(rows)
                    /\ \A a, b \in 1..Len(values) :
                           a < b => Earlier(values[a].time, values[b].time)

\* C6: when the keyed-store query fails for any of the requested references,
\* the response of the whole call is the empty valid response.
C6_QueryFailureGivesEmptyResponse ==
    (branch = "Query" /\ SomeCallFailed) => response = EmptyResponse

\* C6 witness: three references, the query of the middle one fails, and the
\* first one had records that are discarded.
C6_Witness ==
    /\ branch = "Query"
    /\ Len(event.propertyReferences) = 3
    /\ Len(calls) = 2
    /\ Failed(2)
    /\ calls[1].ok
    /\ RowsOf(dynamo, event.propertyReferences[1]) # {}

\* C7 as stated: for every Query invocation and every store state, the
\* response has one element per requested reference, in request order, each
\* echoing its reference, with the records of that reference alone; no
\* records gives an empty values list.
OnePerReference ==
    LET refs == RequestedRefs(event)
        pv == response.propertyValues
    IN  /\ Len(pv) = Len(refs)
        /\ \A n \in 1..Len(refs) :
            /\ pv[n].entityPropertyReference = refs[n]
            /\ Len(pv[n].values) = Cardinality(RowsOf(dynamo, refs[n]))
            /\ {pv[n].values[a] : a \in 1..Len(pv[n].values)}
                   = {Pair(r.Timestamp, r.Valor) : r \in RowsOf(dynamo, refs[n])}
            /\ RowsOf(dynamo, refs[n]) = {} => pv[n].values = <<>>

C7_OnePerReferenceAsStated ==
    (branch = "Query" /\ ReaderMissingKey(event) = None) => OnePerReference

\* C7 as amended: the same for every Query invocation in which no keyed-store
\* query fails and whose request has the fields its format needs.
C7_OnePerReference ==
    (branch = "Query" /\ ReaderMissingKey(event) = None /\ ~SomeCallFailed) =>
        OnePerReference

\* C7 witness: two references answered, the first with a record, the second
\* with none.
C7_Witness ==
    /\ branch = "Query"
    /\ ~SomeCallFailed
    /\ Len(response.propertyValues) = 2
    /\ response.propertyValues[1].values # <<>>
    /\ response.propertyValues[2].values = <<>>

(***************************************************************************)
(* Claims about the router.                                                *)
(***************************************************************************)
\* C4: classification is total and first match wins: Ingest if topic and
\* payload are present, else Persist if entries is, else Query if
\* selectedProperties or propertyReferences is, else Unrecognized; and the
\* invocation runs that branch alone.
ExpectedBranch(ev) ==
    CASE {"topic", "payload"} \subseteq DOMAIN ev -> "Ingest"
      [] ~({"topic", "payload"} \subseteq DOMAIN ev) /\ "entries" \in DOMAIN ev -> "Persist"
      [] /\ ~({"topic", "payload"} \subseteq DOMAIN ev)
         /\ "entries" \notin DOMAIN ev
         /\ {"selectedProperties", "propertyReferences"} \cap DOMAIN ev # {} -> "Query"
      [] OTHER -> "Unrecognized"

ApisOf(kind) ==
    CASE kind = "Ingest" -> {"batch_put_property_values"}
      [] kind = "Persist" -> {"put_item", "put_object"}
      [] kind = "Query" -> {"query"}
      [] OTHER -> {}

C4_FirstMatchWins ==
    branch # None =>
        /\ branch = ExpectedBranch(event)
        /\ \A k \in 1..Len(calls) : calls[k].api \in ApisOf(ExpectedBranch(event))

\* C4 witness: a request with all five fields has been routed.
C4_Witness ==
    /\ branch # None
    /\ RoutedFields \subseteq DOMAIN event

NoStoreWrite(log) ==
    \A k \in 1..Len(log) : log[k].api \notin {"put_item", "put_object"}

\* C5 as stated: every request with a topic field and an entries field takes
\* the Ingest branch and writes neither store.
C5_StepAsStated ==
    {"topic", "entries"} \subseteq DOMAIN event' =>
        /\ branch' = "Ingest"
        /\ NoStoreWrite(calls')
        /\ dynamo' = dynamo
        /\ s3' = s3

C5_TopicAndEntriesAsStated == [][C5_StepAsStated]_vars

\* C5 as amended: every request with a topic field, a payload field and an
\* entries field takes the Ingest branch and writes neither store.
C5_Step ==
    {"topic", "payload", "entries"} \subseteq DOMAIN event' =>
        /\ branch' = "Ingest"
        /\ NoStoreWrite(calls')
        /\ dynamo' = dynamo
        /\ s3' = s3

C5_TopicPayloadAndEntries == [][C5_Step]_vars

\* C5 witness: a request with topic, payload and entries took the Ingest branch.
C5_Witness ==
    /\ branch = "Ingest"
    /\ Has(event, "entries")

(***************************************************************************)
(* Claims about the IoT Core path.                                         *)
(***************************************************************************)
\* The value a message carries: in its payload, or at the top level.
CarriesValue(ev) ==
    \/ Has(ev, "value")
    \/ Has(ev, "payload") /\ Has(ev.payload, "value")

MessageValue(ev) == IF Has(ev, "value") THEN ev.value ELSE ev.payload.value

\* seg is the last '/'-segment of topic: a suffix without '/' that the whole
\* topic or a '/' precedes.
IsLastSegmentOf(seg, topic) ==
    /\ Len(seg) <= Len(topic)
    /\ seg = SubSeq(topic, Len(topic) - Len(seg) + 1, Len(topic))
    /\ \A i \in 1..Len(seg) : seg[i] # "/"
    /\ Len(seg) = Len(topic) \/ topic[Len(topic) - Len(seg)] = "/"

\* The JSON values Python's bool() maps to True.
Truthy == {"true", "1", "\"on\""}

\* Exactly one call to TwinMaker, with exactly one event made of the topic,
\* the value v and the configuration.
ForwardsOneEvent(ev, v) ==
    /\ Len(calls) = 1
    /\ calls[1].api = "batch_put_property_values"
    /\ Len(calls[1].entries) = 1
    /\ LET entry == calls[1].entries[1]
       IN  /\ entry.entityPropertyReference.entityId = TWINMAKER_ENTITY_ID
           /\ entry.entityPropertyReference.componentName = TWINMAKER_COMPONENT_NAME
           /\ IsLastSegmentOf(entry.entityPropertyReference.propertyName, ev.topic)
           /\ Len(entry.propertyValues) = 1
           /\ entry.propertyValues[1].value.booleanValue = (v \in Truthy)

C12_MalformedIngestRejected ==
    (branch = "Ingest" /\ (event.topic = <<>> \/ ~Has(event.payload, "value"))) =>
        /\ response.statusCode # 200
        /\ calls = <<>>
        /\ dynamo = {} /\ s3 = {}

\* C13: in the Ingest branch the call to TwinMaker is attempted at most once;
\* if it fails the response has statusCode 500 and carries the error message,
\* and the call was attempted exactly once; if it succeeds the response has
\* statusCode 200.
C13_ForwardFailureIs500 ==
    branch = "Ingest" =>
        /\ Len(calls) <= 1
        /\ \A k \in 1..Len(calls) : calls[k].api = "batch_put_property_values"
        /\ SomeCallFailed =>
            /\ Len(calls) = 1
            /\ response.statusCode = 500
            /\ response.body = <<"Erro ao chamar o TwinMaker: ",
                                 "ClientError: BatchPutPropertyValues">>
        /\ (Len(calls) = 1 /\ ~SomeCallFailed) => response.statusCode = 200

\* C13 witness: the call to TwinMaker failed.
C13_Witness ==
    /\ branch = "Ingest"
    /\ Len(calls) = 1
    /\ Failed(1)

(***************************************************************************)
(* Claims about the four branches together.                                *)
(***************************************************************************)
\* C14: for every request classified Unrecognized the response is exactly
\* the one a successful Query with an empty list of property references
\* returns, {propertyValues: [], nextToken: null}, and the invocation makes no
\* store read, no store write and no call to TwinMaker.
C14_UnrecognizedIsEmptyQuery ==
    branch = "Unrecognized" =>
        /\ response = [propertyValues |-> <<>>, nextToken |-> None]
        /\ response = LambdaHandler([propertyReferences |-> <<>>], 0, Noon(0, 0),
                                    dynamo, s3).response
        /\ calls = <<>>

\* C14 witness: an unrecognized request arrived when the table had rows.
C14_Witness ==
    /\ branch = "Unrecognized"
    /\ dynamo # {}

\* The fields of the response of each branch.
ShapeOf(kind) ==
    CASE kind = "Ingest" -> {"statusCode", "body"}
      [] kind = "Persist" -> {"errorEntries"}
      [] kind \in {"Query", "Unrecognized"} -> {"propertyValues", "nextToken"}

\* C15: for every request and every failure of the TwinMaker call, of the
\* table and of the bucket, the invocation returns a response, whose shape is
\* that of the branch taken: Ingest {statusCode, body}, Persist
\* {errorEntries}, Query and Unrecognized {propertyValues, nextToken}.
C15_ShapeFixedByBranch ==
    branch # None =>
        /\ branch \in Kinds
        /\ DOMAIN response = ShapeOf(branch)

\* C15 witness: a Persist invocation that raised inside write_to_s3 without
\* any store call failing (the time of the entry is not a timestamp) and
\* returned errorEntries.
C15_Witness ==
    /\ branch = "Persist"
    /\ ~SomeCallFailed
    /\ calls # <<>>
    /\ response.errorEntries # <<>>

\* C16: only the Persist branch changes persisted state: an Ingest, Query or
\* Unrecognized invocation leaves the table and the bucket as they were,
\* whether it succeeds or fails.
C16_Step ==
    branch' \in {"Ingest", "Query", "Unrecognized"} =>
        /\ dynamo' = dynamo
        /\ s3' = s3

C16_OnlyPersistWrites == [][C16_Step]_vars

\* C16 witness: an Ingest invocation whose call to TwinMaker failed, made
\* when the table and the bucket were not empty.
C16_Witness ==
    /\ branch = "Ingest"
    /\ SomeCallFailed
    /\ dynamo # {}
    /\ s3 # {}

(***************************************************************************)
(* Claims about the two stores.                                            *)
(***************************************************************************)
\* The object the archive write of the event of a row puts.
ArchivedEvent(o, r) ==
    /\ o.Body.sensorId = r.SensorID
    /\ o.Body.timestamp = r.Timestamp

\* C17: after successful Persist writes of pairwise distinct events (the rows
\* of the table, one per entityId, propertyName and timestamp), every write
\* has its own archive key: the bucket holds one object per distinct event,
\* none was overwritten by the write of another event.
C17_ArchiveKeyUnique ==
    /\ \A r \in dynamo : \E o \in s3 : ArchivedEvent(o, r)
    /\ Cardinality(s3) = Cardinality(dynamo)

\* C19: after any sequence of invocations with any pattern of store
\* failures, every object of the bucket has a sensorId and a timestamp for
\* which the table has a row with that SensorID and Timestamp.
C19_ArchiveWithinTable ==
    \A o \in s3 :
        \E r \in dynamo : ArchivedEvent(o, r)

\* C19 witness: an archive write failed after its table write, with objects
\* already in the bucket.
C19_Witness ==
    /\ branch = "Persist"
    /\ s3 # {}
    /\ Len(calls) >= 2
    /\ Failed(Len(calls))
    /\ calls[Len(calls)].api = "put_object"
    /\ calls[Len(calls) - 1].ok

\* The store call of an invocation that failed.
FailedCall(log) == CHOOSE k \in 1..Len(log) : ~log[k].ok

PresentInTable(entry) ==
    \E r \in dynamo :
        /\ r.SensorID = CanonicalItem(entry, 1).SensorID
        /\ r.Timestamp = CanonicalItem(entry, 1).Timestamp

PresentInArchive(entry) ==
    \E o \in s3 :
        /\ o.Body.sensorId = CanonicalItem(entry, 1).SensorID
        /\ o.Body.timestamp = CanonicalItem(entry, 1).Timestamp

\* C20 as stated: when a Persist invocation fails at entry i and returns a
\* non-empty errorEntries, every entry before i is present in the table and
\* in the bucket, entry i is present in the table exactly when the failure
\* was in its archive write, and the invocation has written no entry after i.
C20_PrefixPresentAsStated ==
    (branch = "Persist" /\ ValidBatch(event) /\ SomeCallFailed
        /\ response.errorEntries # <<>>) =>
        LET f == FailedCall(calls)
            i == EntryOfCall(f)
        IN  /\ \A j \in 1..(i - 1) :
                /\ PresentInTable(event.entries[j])
                /\ PresentInArchive(event.entries[j])
            /\ PresentInTable(event.entries[i]) <=> (calls[f].api = "put_object")
            /\ Len(calls) = f

\* The stores after the successful puts of a call log, applied in order.
RECURSIVE TableAfter(_, _, _)
TableAfter(table, log, k) ==
    IF k > Len(log) THEN table
    ELSE TableAfter(IF log[k].api = "put_item" /\ log[k].ok
                    THEN PutItem(table, log[k].Item) ELSE table,
                    log, k + 1)

RECURSIVE BucketAfter(_, _, _)
BucketAfter(bucket, log, k) ==
    IF k > Len(log) THEN bucket
    ELSE BucketAfter(IF log[k].api = "put_object" /\ log[k].ok
                     THEN PutObject(bucket, log[k].Key, log[k].Body) ELSE bucket,
                     log, k + 1)

\* Call k of the log is the table write (k odd) or the archive write (k even)
\* of the entry of the batch it belongs to.
IsWriteOfEntry(log, k, entries) ==
    LET entry == entries[EntryOfCall(k)]
    IN  IF k % 2 = 1
        THEN /\ log[k].api = "put_item"
             /\ log[k].Item = CanonicalItem(entry, 1)
        ELSE /\ log[k].api = "put_object"
             /\ log[k].Body = [sensorId |-> CanonicalItem(entry, 1).SensorID,
                               timestamp |-> CanonicalItem(entry, 1).Timestamp,
                               value |-> CanonicalItem(entry, 1).Valor]

\* C20 as amended: when a Persist invocation fails at entry i and returns a
\* non-empty errorEntries, both writes of every entry before i have been
\* made by the invocation and succeeded, the table write of entry i has been
\* made and succeeded exactly when the failure was in its archive write, no
\* write has been attempted for an entry after i, and each store is what it
\* was before the invocation with those successful writes applied in batch
\* order: nothing is rolled back.
C20_Step ==
    (branch' = "Persist" /\ ValidBatch(event') /\ response'.errorEntries # <<>>
        /\ \E k \in 1..Len(calls') : ~calls'[k].ok) =>
        LET f == FailedCall(calls')
            i == EntryOfCall(f)
        IN  /\ i <= Len(event'.entries)
            /\ Len(calls') = f
            /\ \A k \in 1..f : IsWriteOfEntry(calls', k, event'.entries)
            /\ \A k \in 1..(f - 1) : calls'[k].ok
            /\ (calls'[f].api = "put_object") <=> (f = 2 * i)
            /\ dynamo' = TableAfter(dynamo, calls', 1)
            /\ s3' = BucketAfter(s3, calls', 1)
            /\ f = 2 * i => CanonicalItem(event'.entries[i], 1) \in dynamo'
            /\ \A r \in dynamo :
                   \E q \in dynamo' :
                       q.SensorID = r.SensorID /\ q.Timestamp = r.Timestamp

C20_NoRollbackPrefix == [][C20_Step]_vars

\* C20 witness: a batch of two entries failed at the archive write of the
\* second; the first entry is in both stores and the second in the table.
C20_Witness ==
    /\ branch = "Persist"
    /\ Len(event.entries) = 2
    /\ Len(calls) = 4
    /\ Failed(4)
    /\ response.errorEntries # <<>>
    /\ CanonicalItem(event.entries[2], 1) \in dynamo
    /\ PresentInArchive(event.entries[1])

(***************************************************************************)
(* The query limit.                                                        *)
(***************************************************************************)
\* C18: when the table holds more than K records of a SensorKey (K the query
\* limit), a Query for it returns exactly K records, the K with the greatest
\* timestamps, oldest first; when it holds K or fewer it returns all of them.
C18_QueryLimit ==
    (branch = "Query" /\ ~SomeCallFailed) =>
        \A n \in 1..Len(response.propertyValues) :
            LET values == response.propertyValues[n].values
                rows == RowsOf(dynamo, RequestedRefs(event)[n])
                returned == {r \in rows :
                                \E a \in 1..Len(values) :
                                    values[a] = Pair(r.Timestamp, r.Valor)}
            IN  /\ Len(values) = Min(QueryLimit, Cardinality(rows))
                /\ Cardinality(returned) = Len(values)
                /\ \A a \in 1..(Len(values) - 1) :
                       Earlier(values[a].time, values[a + 1].time)
                /\ \A r \in rows \ returned :
                       Earlier(r.Timestamp, values[1].time)

\* C18 witness: a Query answered with K records when the table held more.
C18_Witness ==
    /\ branch = "Query"
    /\ ~SomeCallFailed
    /\ Cardinality(dynamo) > QueryLimit
    /\ Len(response.propertyValues) = 1
    /\ Len(response.propertyValues[1].values) = QueryLimit

====
